---- MODULE Spec2Model ----
(***************************************************************************)
(* Assessment session of Study Buddy: the ChatPage step machine            *)
(* (idle -> scope -> count -> active), the MCQAssessment and QnAAssessment *)
(* components (question loading, submission, explanation gate, advance),   *)
(* the requests they have in flight and the dwell timers they start.       *)
(***************************************************************************)
EXTENDS Integers, Sequences, FiniteSets, Bags, TLC

\* ---------------------------------------------------------------- bounds
\* number of taught topics offered by the topic buttons
MaxTopics == 2
\* largest in-range question count the caller types into the count input
MaxCount == 2
\* number of Retry clicks the caller makes in one session
MaxRetries == 1
\* number of sessions the caller starts
MaxSessions == 2

\* ------------------------------------------------------ program constants
MinQuestionCount == 1
MaxQuestionCount == 50
DefaultCountMCQ == 10
DefaultCountQnA == 5
MinSubmitLength == 10
MinAnswerLength == 3
MinRunLength == 3
MinWordLength == 3
MaxFragmentLength == 3
MaxMoreFragments == 5
MinBackrefs == 2
MarksPerQuestion == 10

\* ------------------------------------------------------------- data types
\* a JS value that may be null is a sequence of length 0 (null) or 1
Null == << >>
Some(x) == << x >>
IsNull(m) == m = << >>
Val(m) == m[1]

Topics == 1 .. MaxTopics

\* values typed into the count input: in range, 0 (empty input), below and above the range
CountInputs == (0 .. MaxCount) \cup {MinQuestionCount - 2, MaxQuestionCount + 1}

\* option labels of a generated question
OptionKeys == {"A", "B"}

\* ------------------------------------------------- characters and answers
LowerSeq == <<"a","b","c","d","e","f","g","h","i","j","k","l","m",
              "n","o","p","q","r","s","t","u","v","w","x","y","z">>
UpperSeq == <<"A","B","C","D","E","F","G","H","I","J","K","L","M",
              "N","O","P","Q","R","S","T","U","V","W","X","Y","Z">>
LowerLetters == {LowerSeq[i] : i \in 1 .. 26}
UpperLetters == {UpperSeq[i] : i \in 1 .. 26}
Letters == LowerLetters \cup UpperLetters
Whitespace == {" ", "\t", "\n"}
LineTerminators == {"\n"}

\* String.prototype.toLowerCase on one character
LowerChar(c) ==
  IF c \in UpperLetters
    THEN LowerSeq[CHOOSE i \in 1 .. 26 : UpperSeq[i] = c]
    ELSE c

toLowerCase(s) == [i \in 1 .. Len(s) |-> LowerChar(s[i])]

\* String.prototype.trim
trim(s) ==
  LET keep == {i \in 1 .. Len(s) : s[i] \notin Whitespace}
  IN IF keep = {} THEN << >>
     ELSE LET lo == CHOOSE i \in keep : \A j \in keep : i <= j
              hi == CHOOSE i \in keep : \A j \in keep : j <= i
          IN SubSeq(s, lo, hi)

\* the maximal runs of characters of s that lie in set cls, as index pairs
Runs(s, cls) ==
  {<<lo, hi>> \in (1 .. Len(s)) \X (1 .. Len(s)) :
     /\ lo <= hi
     /\ \A k \in lo .. hi : s[k] \in cls
     /\ (lo = 1 \/ s[lo - 1] \notin cls)
     /\ (hi = Len(s) \/ s[hi + 1] \notin cls)}

\* /^[asdfghjklqwertyuiopzxcvbnm]{3,}$/i
KeyboardRun(s) ==
  /\ Len(s) >= MinRunLength
  /\ \A i \in 1 .. Len(s) : s[i] \in Letters

ShortFragments_FewerFragments(s) ==
  /\ Len(s) >= 1
  /\ \A i \in 1 .. Len(s) : s[i] \in Letters \cup Whitespace
  /\ s[1] \in Letters /\ s[Len(s)] \in Letters
  /\ \A r \in Runs(s, Letters) : r[2] - r[1] + 1 <= MaxFragmentLength
  /\ Cardinality(Runs(s, Letters)) <= MaxMoreFragments

\* /^[a-z]{1,3}(\s+[a-z]{1,3}){0,5}$/i
ShortFragments(s) ==
  /\ Len(s) >= 1
  /\ \A i \in 1 .. Len(s) : s[i] \in Letters \cup Whitespace
  /\ s[1] \in Letters /\ s[Len(s)] \in Letters
  /\ \A r \in Runs(s, Letters) : r[2] - r[1] + 1 <= MaxFragmentLength
  /\ Cardinality(Runs(s, Letters)) <= 1 + MaxMoreFragments

\* /^[^a-zA-Z]*$/
NoLetters(s) == \A i \in 1 .. Len(s) : s[i] \notin Letters

\* /^(.{1,2})\1{2,}$/
RepeatedPattern(s) ==
  \E k \in 1 .. 2 :
    /\ Len(s) % k = 0
    /\ Len(s) \div k >= 1 + MinBackrefs
    /\ \A i \in 1 .. k : s[i] \notin LineTerminators
    /\ \A i \in 1 .. Len(s) : s[i] = s[((i - 1) % k) + 1]

\* cleaned.match(/[a-zA-Z]{3,}/g)
Words(s) ==
  {SubSeq(s, r[1], r[2]) : r \in {q \in Runs(s, Letters) : q[2] - q[1] + 1 >= MinWordLength}}

gibberishWords_NoAsdf ==
  { <<"q","w","e","r","t","y">>, <<"z","x","c","v">>,
    <<"a","a","a">>, <<"b","b","b">>, <<"x","x","x">>, <<"y","y","y">>, <<"z","z","z">> }

gibberishWords ==
  { <<"a","s","d","f">>, <<"q","w","e","r","t","y">>, <<"z","x","c","v">>,
    <<"a","a","a">>, <<"b","b","b">>, <<"x","x","x">>, <<"y","y","y">>, <<"z","z","z">> }

AlphaChars(s) == Cardinality({i \in 1 .. Len(s) : s[i] \in Letters})

isGibberishAnswer_NoRatioCheck(answer) ==
  LET cleaned == trim(answer)
      lower == toLowerCase(cleaned)
  IN \/ cleaned = << >>
     \/ Len(cleaned) < MinAnswerLength
     \/ KeyboardRun(lower)
     \/ ShortFragments(lower)
     \/ NoLetters(lower)
     \/ RepeatedPattern(lower)
     \/ Words(cleaned) = {}
     \/ \A w \in Words(cleaned) : toLowerCase(w) \in gibberishWords

isGibberishAnswer(answer) ==
  LET cleaned == trim(answer)
      lower == toLowerCase(cleaned)
  IN \/ cleaned = << >>
     \/ Len(cleaned) < MinAnswerLength
     \/ 2 * AlphaChars(cleaned) < Len(cleaned)
     \/ KeyboardRun(lower)
     \/ ShortFragments(lower)
     \/ NoLetters(lower)
     \/ RepeatedPattern(lower)
     \/ Words(cleaned) = {}
     \/ \A w \in Words(cleaned) : toLowerCase(w) \in gibberishWords

SP == <<" ">>
W_asdf == <<"a","s","d","f">>
W_qwerty == <<"q","w","e","r","t","y">>
W_force == <<"F","o","r","c","e">>
W_equals == <<"e","q","u","a","l","s">>
W_mass == <<"m","a","s","s">>

\* the caller's free-form answers: empty, blank, too short for the Submit
\* button, denylisted filler, and an ordinary sentence
AnswerEmpty == << >>
AnswerBlank == SP \o SP \o SP \o SP \o SP \o SP \o SP \o SP \o SP \o SP
AnswerShort == W_qwerty
AnswerFiller == W_asdf \o SP \o W_asdf \o SP \o W_asdf
AnswerSentence == W_force \o SP \o W_equals \o SP \o W_mass

\* "Newton's second law states that force equals mass times acceleration"
AnswerNewton ==
  <<"N","e","w","t","o","n","'","s">> \o SP \o
  <<"s","e","c","o","n","d">> \o SP \o
  <<"l","a","w">> \o SP \o
  <<"s","t","a","t","e","s">> \o SP \o
  <<"t","h","a","t">> \o SP \o
  <<"f","o","r","c","e">> \o SP \o
  <<"e","q","u","a","l","s">> \o SP \o
  <<"m","a","s","s">> \o SP \o
  <<"t","i","m","e","s">> \o SP \o
  <<"a","c","c","e","l","e","r","a","t","i","o","n">>

\* "asd1111", "1a1a1a", "ab1cd"
AnswerMostlyDigits == <<"a","s","d","1","1","1","1">>
AnswerRepeated == <<"1","a","1","a","1","a">>
AnswerNoWord == <<"a","b","1","c","d">>

\* "photosynthesis", "the cat sat on the mat", "the cat sat on the mat now"
W_the == <<"t","h","e">>
W_cat == <<"c","a","t">>
W_sat == <<"s","a","t">>
W_on == <<"o","n">>
W_mat == <<"m","a","t">>
W_now == <<"n","o","w">>
AnswerOneWord == <<"p","h","o","t","o","s","y","n","t","h","e","s","i","s">>
AnswerSixFragments ==
  W_the \o SP \o W_cat \o SP \o W_sat \o SP \o W_on \o SP \o SP \o W_the \o SP \o W_mat
AnswerSevenFragments == AnswerSixFragments \o SP \o W_now

Answers == {AnswerEmpty, AnswerBlank, AnswerShort, AnswerFiller, AnswerSentence}


\* the two messages of handleSubmit's validation
TooShortMessage ==
  "Please provide a meaningful answer. Empty or very short answers are marked as INCORRECT."
GibberishMessage ==
  "Your answer appears to be random characters or gibberish. Please provide a meaningful response that addresses the question."

\* ------------------------------------------------------- scorer responses
\* the feedback and explanation texts a result can carry (empty or not)
\* as <<feedback, correct_explanation>>
ResultTexts == {<<"", "">>, <<"feedback", "">>, <<"feedback", "explanation">>}
QnAMarks == {4, 10}

\* AssessmentResult of MCQAssessment: a verdict, or the evaluator's failure
MCQResults ==
  {[evaluation_error |-> FALSE, is_correct |-> c,
    feedback |-> t[1], correct_explanation |-> t[2]] : c \in BOOLEAN, t \in ResultTexts}
  \cup
  {[evaluation_error |-> TRUE, is_correct |-> FALSE,
    feedback |-> "", correct_explanation |-> ""]}

\* AssessmentResult of QnAAssessment
QnAResults ==
  {[evaluation_error |-> FALSE, total_marks |-> m,
    feedback |-> t[1], correct_explanation |-> t[2]] : m \in QnAMarks, t \in ResultTexts}
  \cup
  {[evaluation_error |-> TRUE, total_marks |-> 0,
    feedback |-> "", correct_explanation |-> ""]}

\* ------------------------------------------------------------------ state
VARIABLES
  assessmentState,        \* ChatPage: step, type, selectedTopics, questionCount
  currentQuestionIndex,   \* component state (MCQAssessment / QnAAssessment)
  currentQuestion,
  selectedOption,
  userAnswer,
  isSubmitting,
  evaluation,
  correctAnswers,
  totalScore,
  isFinished,
  isLoading,
  error,
  canGoNext,
  explanationShown,
  validationError,
  inFlight,               \* generate / submit requests awaiting their response
  timers,                 \* pending setTimeout callbacks, in firing order
  sessions,               \* number of sessions started so far
  retries,                \* Retry clicks made in the current session
  log,                    \* history: the results accumulated into the score
  lastToggle,             \* history: the last topic click of step scope: the topic, the
                          \* selection before it, and whether the click before it, made
                          \* in the step just before, was on the same topic
  lastUpdate,             \* history: the TopicRecord update the server made in the last step
  messages,               \* useChat: the message list
  chatIsLoading,          \* useChat: isLoading
  chatError,              \* useChat: error
  chatCalls,              \* chatApi calls of useChat awaiting their response
  sends,                  \* number of messages sent so far (stands for Date.now())
  topicData,              \* a TopicData of topicsData.all_topics, or of a scorer response
  topicRow,               \* what is displayed for topicData: its label and its colour
  lastEvent               \* history: the last event and what it did

chatVars == <<assessmentState>>
compVars == <<currentQuestionIndex, currentQuestion, selectedOption, userAnswer,
              isSubmitting, evaluation, correctAnswers, totalScore, isFinished,
              isLoading, error, canGoNext, explanationShown, validationError>>
vars == <<assessmentState, currentQuestionIndex, currentQuestion, selectedOption,
          userAnswer, isSubmitting, evaluation, correctAnswers, totalScore,
          isFinished, isLoading, error, canGoNext, explanationShown,
          validationError, inFlight, timers, sessions, retries, log,
          lastToggle, lastUpdate, messages, chatIsLoading, chatError, chatCalls,
          sends, topicData, topicRow, lastEvent>>

\* the state of the chat hook and of the topic list
pageVars == <<messages, chatIsLoading, chatError, chatCalls, sends, topicData, topicRow>>

\* no message, no call of the hook awaiting its response, no topic displayed
PageIdle ==
  /\ messages = << >>
  /\ chatIsLoading = FALSE
  /\ chatError = Null
  /\ chatCalls = {}
  /\ sends = 0
  /\ topicData = Null
  /\ topicRow = Null

IdleState ==
  [step |-> "idle", type |-> "null", selectedTopics |-> << >>, questionCount |-> Null]

\* the useState initial values of a freshly mounted assessment component
MountedFresh ==
  /\ currentQuestionIndex' = 0
  /\ currentQuestion' = Null
  /\ selectedOption' = Null
  /\ userAnswer' = << >>
  /\ isSubmitting' = FALSE
  /\ evaluation' = Null
  /\ correctAnswers' = 0
  /\ totalScore' = 0
  /\ isFinished' = FALSE
  /\ isLoading' = TRUE
  /\ error' = Null
  /\ canGoNext' = FALSE
  /\ explanationShown' = FALSE
  /\ validationError' = Null

\* no session, no component mounted
SessionInit ==
  /\ assessmentState = IdleState
  /\ currentQuestionIndex = 0
  /\ currentQuestion = Null
  /\ selectedOption = Null
  /\ userAnswer = << >>
  /\ isSubmitting = FALSE
  /\ evaluation = Null
  /\ correctAnswers = 0
  /\ totalScore = 0
  /\ isFinished = FALSE
  /\ isLoading = TRUE
  /\ error = Null
  /\ canGoNext = FALSE
  /\ explanationShown = FALSE
  /\ validationError = Null
  /\ inFlight = EmptyBag
  /\ timers = << >>
  /\ sessions = 0
  /\ retries = 0
  /\ log = << >>
  /\ lastToggle = Null
  /\ lastUpdate = Null
  /\ lastEvent = "init"

Init == SessionInit /\ PageIdle

\* ------------------------------------------------------ props and helpers
\* props handed to the mounted component by ChatPage
topics == assessmentState.selectedTopics

\* JS: assessmentState.questionCount || fallback
OrDefault(count, fallback) ==
  IF IsNull(count) \/ Val(count) = 0 THEN fallback ELSE Val(count)

questionCount ==
  IF assessmentState.type = "MCQ"
    THEN OrDefault(assessmentState.questionCount, DefaultCountMCQ)
    ELSE OrDefault(assessmentState.questionCount, DefaultCountQnA)

\* const maxPossibleMarks = questionCount * 10
maxPossibleMarks == questionCount * MarksPerQuestion

Mounted(type) == assessmentState.step = "active" /\ assessmentState.type = type

\* topics[index % topics.length]; 0 stands for undefined
TopicAt(list, index) ==
  IF Len(list) = 0 THEN 0 ELSE list[(index % Len(list)) + 1]

\* a request or timer belongs to the component that is mounted now; those of
\* an unmounted component carry session 0
Live(r) == assessmentState.step = "active" /\ r.session = sessions

Requests == BagToSet(inFlight)
Sent(r) == inFlight (+) SetToBag({r})
Answered(r) == inFlight (-) SetToBag({r})

Orphaned(r) == [r EXCEPT !.session = 0, !.index = 0]

\* the pending requests and timers once the component that made them is gone
OrphanedRequests ==
  IF \E r \in Requests : Live(r)
    THEN LET r == CHOOSE q \in Requests : Live(q)
         IN (inFlight (-) SetToBag({r})) (+) SetToBag({Orphaned(r)})
    ELSE inFlight

OrphanedTimers ==
  [i \in 1 .. Len(timers) |-> [session |-> 0, stale |-> FALSE]]

GenerateRequest(topic, index) ==
  [kind |-> "generate", topic |-> topic, index |-> index, session |-> sessions]

SubmitRequest(topic, index) ==
  [kind |-> "submit", topic |-> topic, index |-> index, session |-> sessions]

\* loadNextQuestion makes every timer of the component one of an earlier question
Outdated(ts) ==
  [i \in 1 .. Len(ts) |->
     IF ts[i].session = sessions THEN [ts[i] EXCEPT !.stale = TRUE] ELSE ts[i]]


\* ------------------------------------------------------------ the server
\* submit_answer: a scorer failure changes no counter; a scored answer makes
\* exactly one update(topic, ...), which adds one to the questions_attempted of
\* that topic's TopicRecord.  The model keeps the update a step makes, not the
\* sums: a TopicRecord changes in a step exactly when the step makes an update.
submitAnswer(topic, evaluation_error) ==
  IF evaluation_error THEN Null ELSE Some(topic)

\* ------------------------------------------------------ ChatPage handlers
netVars == <<inFlight, timers>>

handleStartAssessment(type) ==
  assessmentState' =
    [step |-> "scope", type |-> type, selectedTopics |-> << >>, questionCount |-> Null]

\* "Take MCQ" / "Take Q&A", shown in step idle
TakeAssessment(type) ==
  /\ assessmentState.step = "idle"
  /\ sessions < MaxSessions
  /\ handleStartAssessment(type)
  /\ sessions' = sessions + 1
  /\ lastEvent' = "start"
  /\ lastUpdate' = Null
  /\ UNCHANGED <<compVars, netVars, retries, log, lastToggle>>
  /\ UNCHANGED pageVars

\* prev.selectedTopics.filter(t => t !== topic)
Without(list, topic) == SelectSeq(list, LAMBDA t : t # topic)

Includes(list, topic) == \E i \in 1 .. Len(list) : list[i] = topic

ToggledTopics_AddOnly(list, topic) ==
  IF Includes(list, topic) THEN list ELSE Append(list, topic)

\* prev.selectedTopics.includes(topic) ? filter : [...prev.selectedTopics, topic]
ToggledTopics(list, topic) ==
  IF Includes(list, topic) THEN Without(list, topic) ELSE Append(list, topic)

handleToggleTopic_Prepend(topic) ==
  assessmentState' =
    [assessmentState EXCEPT !.selectedTopics =
       IF Includes(@, topic) THEN Without(@, topic) ELSE <<topic>> \o @]

handleToggleTopic(topic) ==
  assessmentState' = [assessmentState EXCEPT !.selectedTopics = ToggledTopics(@, topic)]

\* a topic button, shown in step scope
ClickTopic(topic) ==
  /\ assessmentState.step = "scope"
  /\ handleToggleTopic(topic)
  /\ lastToggle' = Some([topic |-> topic, before |-> assessmentState.selectedTopics,
                          again |-> /\ lastEvent \in {"toggleAdd", "toggleRemove"}
                                    /\ ~IsNull(lastToggle)
                                    /\ Val(lastToggle).topic = topic])
  /\ lastEvent' = IF Includes(assessmentState.selectedTopics, topic)
                    THEN "toggleRemove" ELSE "toggleAdd"
  /\ lastUpdate' = Null
  /\ UNCHANGED <<compVars, netVars, sessions, retries, log>>
  /\ UNCHANGED pageVars

handleSetQuestionCount(count) ==
  assessmentState' = [assessmentState EXCEPT !.step = "count", !.questionCount = Some(count)]

ConfirmTopicsDisabled_Never == FALSE

\* disabled={selectedTopics.length === 0}
ConfirmTopicsDisabled == Len(assessmentState.selectedTopics) = 0

\* "Confirm Topics", shown in step scope
ConfirmTopics ==
  /\ assessmentState.step = "scope"
  /\ IF ConfirmTopicsDisabled
       THEN /\ lastEvent' = "confirmTopicsDisabled"
            /\ UNCHANGED <<assessmentState, lastToggle>>
       ELSE /\ handleSetQuestionCount(0)
            /\ lastToggle' = Null
            /\ lastEvent' = "confirmTopics"
  /\ lastUpdate' = Null
  /\ UNCHANGED <<compVars, netVars, sessions, retries, log>>
  /\ UNCHANGED pageVars

CountInput_Clamped(num) ==
  /\ assessmentState.step = "count"
  /\ handleSetQuestionCount(IF num < MinQuestionCount THEN MinQuestionCount
                            ELSE IF num > MaxQuestionCount THEN MaxQuestionCount ELSE num)
  /\ lastEvent' = IF num \in MinQuestionCount .. MaxQuestionCount
                    THEN "count" ELSE "countOutOfRange"
  /\ lastUpdate' = Null
  /\ UNCHANGED <<compVars, netVars, sessions, retries, log, lastToggle>>
  /\ UNCHANGED pageVars

\* onChange of the count input, shown in step count
CountInput(num) ==
  /\ assessmentState.step = "count"
  /\ handleSetQuestionCount(num)
  /\ lastEvent' = IF num \in MinQuestionCount .. MaxQuestionCount
                    THEN "count" ELSE "countOutOfRange"
  /\ lastUpdate' = Null
  /\ UNCHANGED <<compVars, netVars, sessions, retries, log, lastToggle>>
  /\ UNCHANGED pageVars

StartDisabled_NoUpperBound(count) ==
  \/ IsNull(count)
  \/ Val(count) = 0
  \/ Val(count) < MinQuestionCount

\* disabled={!questionCount || questionCount < 1 || questionCount > 50}
StartDisabled(count) ==
  \/ IsNull(count)
  \/ Val(count) = 0
  \/ Val(count) < MinQuestionCount
  \/ Val(count) > MaxQuestionCount

handleConfirmAssessment == assessmentState' = [assessmentState EXCEPT !.step = "active"]

handleCancelAssessment_KeepTopics ==
  assessmentState' = [IdleState EXCEPT !.selectedTopics = assessmentState.selectedTopics]

handleCancelAssessment == assessmentState' = IdleState

\* unmounting destroys the component's state; what it left pending stays pending
Unmount ==
  /\ MountedFresh
  /\ retries' = 0
  /\ log' = << >>
  /\ inFlight' = OrphanedRequests
  /\ timers' = OrphanedTimers
  /\ UNCHANGED sessions

Cancel_NotWhileSubmitting ==
  /\ assessmentState.step # "idle"
  /\ ~isFinished
  /\ ~isSubmitting
  /\ handleCancelAssessment
  /\ Unmount
  /\ lastToggle' = Null
  /\ lastEvent' = "cancel"
  /\ lastUpdate' = Null
  /\ UNCHANGED pageVars

\* the X of steps scope and count, Cancel of step active, Quit of the component
Cancel ==
  /\ assessmentState.step # "idle"
  /\ ~isFinished
  /\ handleCancelAssessment
  /\ Unmount
  /\ lastToggle' = Null
  /\ lastEvent' = "cancel"
  /\ lastUpdate' = Null
  /\ UNCHANGED pageVars

\* "Return to Learning" / "Close" of the summary view
LeaveSummary ==
  /\ assessmentState.step = "active"
  /\ isFinished
  /\ handleCancelAssessment
  /\ Unmount
  /\ lastEvent' = "leaveSummary"
  /\ lastUpdate' = Null
  /\ UNCHANGED lastToggle
  /\ UNCHANGED pageVars


\* --------------------------------------------------------- MCQAssessment
\* loadNextQuestion as called from a render whose currentQuestionIndex is
\* closureIndex; shownIndex is the index the component shows the question at
MCQ_loadNextQuestion_KeepGate(closureIndex, shownIndex) ==
  /\ isLoading' = TRUE
  /\ error' = Null
  /\ selectedOption' = Null
  /\ evaluation' = Null
  /\ explanationShown' = FALSE
  /\ inFlight' = Sent(GenerateRequest(TopicAt(topics, closureIndex), shownIndex))
  /\ timers' = Outdated(timers)
  /\ UNCHANGED <<currentQuestion, userAnswer, isSubmitting, correctAnswers,
                 totalScore, isFinished, validationError, canGoNext>>

MCQ_loadNextQuestion(closureIndex, shownIndex) ==
  /\ isLoading' = TRUE
  /\ error' = Null
  /\ selectedOption' = Null
  /\ evaluation' = Null
  /\ canGoNext' = FALSE
  /\ explanationShown' = FALSE
  /\ inFlight' = Sent(GenerateRequest(TopicAt(topics, closureIndex), shownIndex))
  /\ timers' = Outdated(timers)
  /\ UNCHANGED <<currentQuestion, userAnswer, isSubmitting, correctAnswers,
                 totalScore, isFinished, validationError>>

\* chatApi.generateMCQ resolved: setCurrentQuestion(data), then finally
MCQ_GenerateSucceeds ==
  /\ Mounted("MCQ")
  /\ \E r \in Requests :
       /\ r.kind = "generate" /\ Live(r)
       /\ inFlight' = Answered(r)
       /\ currentQuestion' = Some([topic |-> r.topic, index |-> r.index])
  /\ isLoading' = FALSE
  /\ lastEvent' = "generated"
  /\ UNCHANGED <<assessmentState, currentQuestionIndex, selectedOption, userAnswer,
                 isSubmitting, evaluation, correctAnswers, totalScore, isFinished,
                 error, canGoNext, explanationShown, validationError,
                 timers, sessions, retries, log>>
  /\ lastUpdate' = Null
  /\ UNCHANGED lastToggle
  /\ UNCHANGED pageVars

MCQ_GenerateFails_AutoRetry ==
  /\ Mounted("MCQ")
  /\ \E r \in Requests :
       /\ r.kind = "generate" /\ Live(r)
       /\ inFlight' = inFlight
  /\ error' = Some("Failed to load question. Please try again.")
  /\ isLoading' = TRUE
  /\ lastEvent' = "generateFailed"
  /\ UNCHANGED <<assessmentState, currentQuestionIndex, currentQuestion, selectedOption,
                 userAnswer, isSubmitting, evaluation, correctAnswers, totalScore,
                 isFinished, canGoNext, explanationShown, validationError,
                 timers, sessions, retries, log>>
  /\ lastUpdate' = Null
  /\ UNCHANGED lastToggle
  /\ UNCHANGED pageVars

\* chatApi.generateMCQ threw: catch, then finally
MCQ_GenerateFails ==
  /\ Mounted("MCQ")
  /\ \E r \in Requests :
       /\ r.kind = "generate" /\ Live(r)
       /\ inFlight' = Answered(r)
  /\ error' = Some("Failed to load question. Please try again.")
  /\ isLoading' = FALSE
  /\ lastEvent' = "generateFailed"
  /\ UNCHANGED <<assessmentState, currentQuestionIndex, currentQuestion, selectedOption,
                 userAnswer, isSubmitting, evaluation, correctAnswers, totalScore,
                 isFinished, canGoNext, explanationShown, validationError,
                 timers, sessions, retries, log>>
  /\ lastUpdate' = Null
  /\ UNCHANGED lastToggle
  /\ UNCHANGED pageVars

\* an option button: rendered with the question, disabled once evaluated or submitting
MCQ_SelectOption(key) ==
  /\ Mounted("MCQ")
  /\ ~isFinished /\ ~isLoading /\ IsNull(error) /\ ~IsNull(currentQuestion)
  /\ IsNull(evaluation) /\ ~isSubmitting
  /\ selectedOption' = Some(key)
  /\ lastEvent' = "select"
  /\ UNCHANGED <<assessmentState, currentQuestionIndex, currentQuestion, userAnswer,
                 isSubmitting, evaluation, correctAnswers, totalScore, isFinished,
                 isLoading, error, canGoNext, explanationShown, validationError,
                 netVars, sessions, retries, log>>
  /\ lastUpdate' = Null
  /\ UNCHANGED lastToggle
  /\ UNCHANGED pageVars

\* disabled={!selectedOption || isSubmitting}
MCQ_SubmitDisabled == IsNull(selectedOption) \/ isSubmitting

MCQ_handleSubmit ==
  IF IsNull(selectedOption) \/ IsNull(currentQuestion)
    THEN /\ error' = Some("Please select an option before submitting.")
         /\ lastEvent' = "submitRejected"
         /\ UNCHANGED <<isSubmitting, inFlight>>
    ELSE /\ isSubmitting' = TRUE
         /\ error' = Null
         /\ inFlight' = Sent(SubmitRequest(TopicAt(topics, currentQuestionIndex), currentQuestionIndex))
         /\ lastEvent' = "submitSent"

\* the Submit Answer button, shown while there is no evaluation
MCQ_ClickSubmit ==
  /\ Mounted("MCQ")
  /\ ~isFinished /\ IsNull(evaluation)
  /\ IF MCQ_SubmitDisabled
       THEN /\ lastEvent' = "submitDisabled"
            /\ UNCHANGED <<isSubmitting, error, inFlight>>
       ELSE MCQ_handleSubmit
  /\ UNCHANGED <<assessmentState, currentQuestionIndex, currentQuestion, selectedOption,
                 userAnswer, evaluation, correctAnswers, totalScore, isFinished,
                 isLoading, canGoNext, explanationShown, validationError,
                 timers, sessions, retries, log>>
  /\ lastUpdate' = Null
  /\ UNCHANGED lastToggle
  /\ UNCHANGED pageVars

DwellTimer == [session |-> sessions, stale |-> FALSE]

\* history: which kind of result the scorer returned
ResultEvent(result) ==
  IF result.evaluation_error THEN "evaluationError"
  ELSE IF result.feedback = "" /\ result.correct_explanation = "" THEN "resultUnexplained"
  ELSE "resultExplained"

\* history of the results the scorer returned as verdicts: the index each was
\* given for, what it was worth, and whether it came with a text to show
Logged(result, worth) ==
  IF result.evaluation_error THEN log
  ELSE Append(log, [index |-> currentQuestionIndex, worth |-> worth,
                    explained |-> ~(result.feedback = "" /\ result.correct_explanation = "")])

MCQ_onResult_NoErrorCheck(result) ==
  /\ evaluation' = Some(result)
  /\ correctAnswers' = IF result.is_correct THEN correctAnswers + 1 ELSE correctAnswers
  /\ isSubmitting' = FALSE
  /\ IF result.feedback = "" /\ result.correct_explanation = ""
       THEN /\ error' = Some("Assessment evaluation failed. No explanation provided. Please retry.")
            /\ UNCHANGED <<explanationShown, timers>>
       ELSE /\ explanationShown' = TRUE
            /\ timers' = Append(timers, DwellTimer)
            /\ UNCHANGED error

\* handleSubmit after `await chatApi.submitMCQ` returned result
MCQ_onResult(result) ==
  IF result.evaluation_error
    THEN /\ error' = Some("Assessment evaluation failed. Please retry.")
         /\ isSubmitting' = FALSE
         /\ UNCHANGED <<evaluation, correctAnswers, explanationShown, timers>>
    ELSE /\ evaluation' = Some(result)
         /\ correctAnswers' = IF result.is_correct THEN correctAnswers + 1 ELSE correctAnswers
         /\ isSubmitting' = FALSE
         /\ IF result.feedback = "" /\ result.correct_explanation = ""
              THEN /\ error' = Some("Assessment evaluation failed. No explanation provided. Please retry.")
                   /\ UNCHANGED <<explanationShown, timers>>
              ELSE /\ explanationShown' = TRUE
                   /\ timers' = Append(timers, DwellTimer)
                   /\ UNCHANGED error

MCQ_SubmitReturns ==
  /\ Mounted("MCQ")
  /\ \E r \in Requests, result \in MCQResults :
       /\ r.kind = "submit" /\ Live(r)
       /\ inFlight' = Answered(r)
       /\ lastUpdate' = submitAnswer(r.topic, result.evaluation_error)
       /\ MCQ_onResult(result)
       /\ log' = Logged(result, IF result.is_correct THEN 1 ELSE 0)
       /\ lastEvent' = ResultEvent(result)
  /\ UNCHANGED <<assessmentState, currentQuestionIndex, currentQuestion, selectedOption,
                 userAnswer, totalScore, isFinished, isLoading, canGoNext,
                 validationError, sessions, retries>>
  /\ UNCHANGED lastToggle
  /\ UNCHANGED pageVars

\* chatApi.submitMCQ threw: catch, then finally
MCQ_SubmitThrows ==
  /\ Mounted("MCQ")
  /\ \E r \in Requests :
       /\ r.kind = "submit" /\ Live(r)
       /\ inFlight' = Answered(r)
  /\ error' = Some("Assessment evaluation failed. Please retry.")
  /\ isSubmitting' = FALSE
  /\ lastEvent' = "submitFailed"
  /\ UNCHANGED <<assessmentState, currentQuestionIndex, currentQuestion, selectedOption,
                 userAnswer, evaluation, correctAnswers, totalScore, isFinished,
                 isLoading, canGoNext, explanationShown, validationError,
                 timers, sessions, retries, log>>
  /\ lastUpdate' = Null
  /\ UNCHANGED lastToggle
  /\ UNCHANGED pageVars

NextDisabled_NoDwell == ~explanationShown

\* disabled={!canGoNext || !explanationShown}
NextDisabled == ~canGoNext \/ ~explanationShown

HasNextQuestion_Inclusive(index, count) == index + 1 <= count

\* currentQuestionIndex + 1 < questionCount
HasNextQuestion(index, count) == index + 1 < count

MCQ_handleNext_NoLoad ==
  IF ~explanationShown
    THEN /\ error' = Some("Please review the explanation before proceeding.")
         /\ lastEvent' = "nextRejected"
         /\ UNCHANGED <<currentQuestionIndex, currentQuestion, selectedOption, userAnswer,
                        isSubmitting, evaluation, correctAnswers, totalScore, isFinished,
                        isLoading, canGoNext, explanationShown, validationError, netVars>>
    ELSE IF HasNextQuestion(currentQuestionIndex, questionCount)
      THEN /\ currentQuestionIndex' = currentQuestionIndex + 1
           /\ lastEvent' = "advanced"
           /\ UNCHANGED <<currentQuestion, selectedOption, userAnswer,
                          isSubmitting, evaluation, correctAnswers, totalScore, isFinished,
                          isLoading, error, canGoNext, explanationShown, validationError,
                          netVars>>
      ELSE /\ isFinished' = TRUE
           /\ lastEvent' = "finished"
           /\ UNCHANGED <<currentQuestionIndex, currentQuestion, selectedOption, userAnswer,
                          isSubmitting, evaluation, correctAnswers, totalScore,
                          isLoading, error, canGoNext, explanationShown, validationError,
                          netVars>>

MCQ_handleNext ==
  IF ~explanationShown
    THEN /\ error' = Some("Please review the explanation before proceeding.")
         /\ lastEvent' = "nextRejected"
         /\ UNCHANGED <<currentQuestionIndex, currentQuestion, selectedOption, userAnswer,
                        isSubmitting, evaluation, correctAnswers, totalScore, isFinished,
                        isLoading, canGoNext, explanationShown, validationError, netVars>>
    ELSE IF HasNextQuestion(currentQuestionIndex, questionCount)
      THEN /\ currentQuestionIndex' = currentQuestionIndex + 1
           /\ MCQ_loadNextQuestion(currentQuestionIndex, currentQuestionIndex + 1)
           /\ lastEvent' = "advanced"
      ELSE /\ isFinished' = TRUE
           /\ lastEvent' = "finished"
           /\ UNCHANGED <<currentQuestionIndex, currentQuestion, selectedOption, userAnswer,
                          isSubmitting, evaluation, correctAnswers, totalScore,
                          isLoading, error, canGoNext, explanationShown, validationError,
                          netVars>>


\* the Next Question / View Results button, shown once there is an evaluation
MCQ_ClickNext ==
  /\ Mounted("MCQ")
  /\ ~isFinished /\ ~IsNull(evaluation)
  /\ IF NextDisabled
       THEN /\ lastEvent' = "nextDisabled"
            /\ UNCHANGED <<compVars, netVars>>
       ELSE MCQ_handleNext
  /\ UNCHANGED <<assessmentState, sessions, retries, log>>
  /\ lastUpdate' = Null
  /\ UNCHANGED lastToggle
  /\ UNCHANGED pageVars

\* the Retry button of the error view
MCQ_ClickRetry ==
  /\ Mounted("MCQ")
  /\ ~isFinished /\ ~isLoading /\ ~IsNull(error)
  /\ retries < MaxRetries
  /\ retries' = retries + 1
  /\ MCQ_loadNextQuestion(currentQuestionIndex, currentQuestionIndex)
  /\ lastEvent' = "retry"
  /\ UNCHANGED <<assessmentState, currentQuestionIndex, sessions, log>>
  /\ lastUpdate' = Null
  /\ UNCHANGED lastToggle
  /\ UNCHANGED pageVars

\* ---------------------------------------------------------- QnAAssessment
QnA_loadNextQuestion_KeepExplanation(closureIndex, shownIndex) ==
  /\ isLoading' = TRUE
  /\ error' = Null
  /\ validationError' = Null
  /\ userAnswer' = << >>
  /\ evaluation' = Null
  /\ canGoNext' = FALSE
  /\ inFlight' = Sent(GenerateRequest(TopicAt(topics, closureIndex), shownIndex))
  /\ timers' = Outdated(timers)
  /\ UNCHANGED <<currentQuestion, selectedOption, isSubmitting, correctAnswers,
                 totalScore, isFinished, explanationShown>>

QnA_loadNextQuestion(closureIndex, shownIndex) ==
  /\ isLoading' = TRUE
  /\ error' = Null
  /\ validationError' = Null
  /\ userAnswer' = << >>
  /\ evaluation' = Null
  /\ canGoNext' = FALSE
  /\ explanationShown' = FALSE
  /\ inFlight' = Sent(GenerateRequest(TopicAt(topics, closureIndex), shownIndex))
  /\ timers' = Outdated(timers)
  /\ UNCHANGED <<currentQuestion, selectedOption, isSubmitting, correctAnswers,
                 totalScore, isFinished>>

\* chatApi.generateQnA resolved: setCurrentQuestion(data), then finally
QnA_GenerateSucceeds ==
  /\ Mounted("QNA")
  /\ \E r \in Requests :
       /\ r.kind = "generate" /\ Live(r)
       /\ inFlight' = Answered(r)
       /\ currentQuestion' = Some([topic |-> r.topic, index |-> r.index])
  /\ isLoading' = FALSE
  /\ lastEvent' = "generated"
  /\ UNCHANGED <<assessmentState, currentQuestionIndex, selectedOption, userAnswer,
                 isSubmitting, evaluation, correctAnswers, totalScore, isFinished,
                 error, canGoNext, explanationShown, validationError,
                 timers, sessions, retries, log>>
  /\ lastUpdate' = Null
  /\ UNCHANGED lastToggle
  /\ UNCHANGED pageVars

\* chatApi.generateQnA threw: catch, then finally
QnA_GenerateFails ==
  /\ Mounted("QNA")
  /\ \E r \in Requests :
       /\ r.kind = "generate" /\ Live(r)
       /\ inFlight' = Answered(r)
  /\ error' = Some("Failed to load question. Please try again.")
  /\ isLoading' = FALSE
  /\ lastEvent' = "generateFailed"
  /\ UNCHANGED <<assessmentState, currentQuestionIndex, currentQuestion, selectedOption,
                 userAnswer, isSubmitting, evaluation, correctAnswers, totalScore,
                 isFinished, canGoNext, explanationShown, validationError,
                 timers, sessions, retries, log>>
  /\ lastUpdate' = Null
  /\ UNCHANGED lastToggle
  /\ UNCHANGED pageVars

\* onChange of the answer Textarea: rendered with the question, disabled once
\* evaluated or submitting
QnA_TypeAnswer(answer) ==
  /\ Mounted("QNA")
  /\ ~isFinished /\ ~isLoading /\ IsNull(error)
  /\ IsNull(evaluation) /\ ~isSubmitting
  /\ userAnswer' = answer
  /\ lastEvent' = "type"
  /\ UNCHANGED <<assessmentState, currentQuestionIndex, currentQuestion, selectedOption,
                 isSubmitting, evaluation, correctAnswers, totalScore, isFinished,
                 isLoading, error, canGoNext, explanationShown, validationError,
                 netVars, sessions, retries, log>>
  /\ lastUpdate' = Null
  /\ UNCHANGED lastToggle
  /\ UNCHANGED pageVars

\* disabled={userAnswer.length < 10 || isSubmitting}
QnA_SubmitDisabled == Len(userAnswer) < MinSubmitLength \/ isSubmitting

\* !userAnswer || userAnswer.trim().length < 3
TooShort(answer) == answer = << >> \/ Len(trim(answer)) < MinAnswerLength

\* the answer passes both checks handleSubmit makes before contacting the scorer
Acceptable(answer) == ~TooShort(answer) /\ ~isGibberishAnswer(answer)

QnA_handleSubmit_NoGibberishCheck ==
  IF IsNull(currentQuestion)
    THEN /\ lastEvent' = "submitRejected"
         /\ UNCHANGED <<validationError, isSubmitting, error, inFlight>>
    ELSE IF TooShort(userAnswer)
      THEN /\ validationError' = Some(TooShortMessage)
           /\ lastEvent' = "submitRejected"
           /\ UNCHANGED <<isSubmitting, error, inFlight>>
      ELSE /\ validationError' = Null
           /\ isSubmitting' = TRUE
           /\ error' = Null
           /\ inFlight' = Sent(SubmitRequest(TopicAt(topics, currentQuestionIndex), currentQuestionIndex))
           /\ lastEvent' = "submitSent"

QnA_handleSubmit ==
  IF IsNull(currentQuestion)
    THEN /\ lastEvent' = "submitRejected"
         /\ UNCHANGED <<validationError, isSubmitting, error, inFlight>>
    ELSE IF TooShort(userAnswer)
      THEN /\ validationError' = Some(TooShortMessage)
           /\ lastEvent' = "submitRejected"
           /\ UNCHANGED <<isSubmitting, error, inFlight>>
      ELSE IF isGibberishAnswer(userAnswer)
        THEN /\ validationError' = Some(GibberishMessage)
             /\ lastEvent' = "submitRejected"
             /\ UNCHANGED <<isSubmitting, error, inFlight>>
        ELSE /\ validationError' = Null
             /\ isSubmitting' = TRUE
             /\ error' = Null
             /\ inFlight' = Sent(SubmitRequest(TopicAt(topics, currentQuestionIndex), currentQuestionIndex))
             /\ lastEvent' = "submitSent"

\* the Submit Answer button, shown while there is no evaluation
QnA_ClickSubmit ==
  /\ Mounted("QNA")
  /\ ~isFinished /\ IsNull(evaluation)
  /\ IF QnA_SubmitDisabled
       THEN /\ lastEvent' = "submitDisabled"
            /\ UNCHANGED <<validationError, isSubmitting, error, inFlight>>
       ELSE QnA_handleSubmit
  /\ UNCHANGED <<assessmentState, currentQuestionIndex, currentQuestion, selectedOption,
                 userAnswer, evaluation, correctAnswers, totalScore, isFinished,
                 isLoading, canGoNext, explanationShown,
                 timers, sessions, retries, log>>
  /\ lastUpdate' = Null
  /\ UNCHANGED lastToggle
  /\ UNCHANGED pageVars

\* handleSubmit after `await chatApi.submitQnA` returned result
QnA_onResult(result) ==
  IF result.evaluation_error
    THEN /\ error' = Some("Assessment evaluation failed. Please retry.")
         /\ isSubmitting' = FALSE
         /\ UNCHANGED <<evaluation, totalScore, explanationShown, timers>>
    ELSE /\ evaluation' = Some(result)
         /\ totalScore' = totalScore + result.total_marks
         /\ isSubmitting' = FALSE
         /\ IF result.feedback = "" /\ result.correct_explanation = ""
              THEN /\ error' = Some("Assessment evaluation failed. No explanation provided. Please retry.")
                   /\ UNCHANGED <<explanationShown, timers>>
              ELSE /\ explanationShown' = TRUE
                   /\ timers' = Append(timers, DwellTimer)
                   /\ UNCHANGED error

QnA_SubmitReturns ==
  /\ Mounted("QNA")
  /\ \E r \in Requests, result \in QnAResults :
       /\ r.kind = "submit" /\ Live(r)
       /\ inFlight' = Answered(r)
       /\ lastUpdate' = submitAnswer(r.topic, result.evaluation_error)
       /\ QnA_onResult(result)
       /\ log' = Logged(result, result.total_marks)
       /\ lastEvent' = ResultEvent(result)
  /\ UNCHANGED <<assessmentState, currentQuestionIndex, currentQuestion, selectedOption,
                 userAnswer, correctAnswers, isFinished, isLoading, canGoNext,
                 validationError, sessions, retries>>
  /\ UNCHANGED lastToggle
  /\ UNCHANGED pageVars

\* chatApi.submitQnA threw: catch, then finally
QnA_SubmitThrows ==
  /\ Mounted("QNA")
  /\ \E r \in Requests :
       /\ r.kind = "submit" /\ Live(r)
       /\ inFlight' = Answered(r)
  /\ error' = Some("Assessment evaluation failed. Please retry.")
  /\ isSubmitting' = FALSE
  /\ lastEvent' = "submitFailed"
  /\ UNCHANGED <<assessmentState, currentQuestionIndex, currentQuestion, selectedOption,
                 userAnswer, evaluation, correctAnswers, totalScore, isFinished,
                 isLoading, canGoNext, explanationShown, validationError,
                 timers, sessions, retries, log>>
  /\ lastUpdate' = Null
  /\ UNCHANGED lastToggle
  /\ UNCHANGED pageVars

QnA_handleNext ==
  IF ~explanationShown
    THEN /\ error' = Some("Please review the explanation before proceeding.")
         /\ lastEvent' = "nextRejected"
         /\ UNCHANGED <<currentQuestionIndex, currentQuestion, selectedOption, userAnswer,
                        isSubmitting, evaluation, correctAnswers, totalScore, isFinished,
                        isLoading, canGoNext, explanationShown, validationError, netVars>>
    ELSE IF HasNextQuestion(currentQuestionIndex, questionCount)
      THEN /\ currentQuestionIndex' = currentQuestionIndex + 1
           /\ QnA_loadNextQuestion(currentQuestionIndex, currentQuestionIndex + 1)
           /\ lastEvent' = "advanced"
      ELSE /\ isFinished' = TRUE
           /\ lastEvent' = "finished"
           /\ UNCHANGED <<currentQuestionIndex, currentQuestion, selectedOption, userAnswer,
                          isSubmitting, evaluation, correctAnswers, totalScore,
                          isLoading, error, canGoNext, explanationShown, validationError,
                          netVars>>

\* the Next Question / View Results button, shown once there is an evaluation
QnA_ClickNext ==
  /\ Mounted("QNA")
  /\ ~isFinished /\ ~IsNull(evaluation)
  /\ IF NextDisabled
       THEN /\ lastEvent' = "nextDisabled"
            /\ UNCHANGED <<compVars, netVars>>
       ELSE QnA_handleNext
  /\ UNCHANGED <<assessmentState, sessions, retries, log>>
  /\ lastUpdate' = Null
  /\ UNCHANGED lastToggle
  /\ UNCHANGED pageVars

\* the Retry button of the error view
QnA_ClickRetry ==
  /\ Mounted("QNA")
  /\ ~isFinished /\ ~isLoading /\ ~IsNull(error)
  /\ retries < MaxRetries
  /\ retries' = retries + 1
  /\ QnA_loadNextQuestion(currentQuestionIndex, currentQuestionIndex)
  /\ lastEvent' = "retry"
  /\ UNCHANGED <<assessmentState, currentQuestionIndex, sessions, log>>
  /\ lastUpdate' = Null
  /\ UNCHANGED lastToggle
  /\ UNCHANGED pageVars

\* ------------------------------------------------ mounting, timers, orphans
\* ChatPage renders the component of the session's type once the step is
\* active; the component's mount effect calls loadNextQuestion
Mount ==
  /\ currentQuestionIndex' = 0
  /\ currentQuestion' = Null
  /\ isSubmitting' = FALSE
  /\ correctAnswers' = 0
  /\ totalScore' = 0
  /\ isFinished' = FALSE
  /\ IF assessmentState.type = "MCQ"
       THEN /\ MCQ_loadNextQuestion(0, 0)
            /\ userAnswer' = << >>
            /\ validationError' = Null
       ELSE IF assessmentState.type = "QNA"
         THEN /\ QnA_loadNextQuestion(0, 0)
              /\ selectedOption' = Null
         ELSE UNCHANGED <<selectedOption, userAnswer, evaluation, isLoading, error,
                          canGoNext, explanationShown, validationError, inFlight, timers>>

\* "Start Assessment", shown in step count
StartAssessment ==
  /\ assessmentState.step = "count"
  /\ IF StartDisabled(assessmentState.questionCount)
       THEN /\ lastEvent' = "startDisabled"
            /\ UNCHANGED <<assessmentState, compVars, netVars>>
       ELSE /\ handleConfirmAssessment
            /\ Mount
            /\ lastEvent' = "confirm"
  /\ lastUpdate' = Null
  /\ UNCHANGED <<sessions, retries, log, lastToggle>>
  /\ UNCHANGED pageVars

DwellElapsed_NoEffect ==
  /\ timers # << >>
  /\ timers' = Tail(timers)
  /\ canGoNext' = canGoNext
  /\ lastEvent' = IF Live(Head(timers)) THEN "dwell" ELSE "dwellOrphan"
  /\ UNCHANGED <<assessmentState, currentQuestionIndex, currentQuestion, selectedOption,
                 userAnswer, isSubmitting, evaluation, correctAnswers, totalScore,
                 isFinished, isLoading, error, explanationShown, validationError,
                 inFlight, sessions, retries, log>>
  /\ lastUpdate' = Null
  /\ UNCHANGED lastToggle
  /\ UNCHANGED pageVars

\* the 2000 ms callback of the oldest pending timer: setCanGoNext(true)
DwellElapsed ==
  /\ timers # << >>
  /\ timers' = Tail(timers)
  /\ canGoNext' = IF Live(Head(timers)) THEN TRUE ELSE canGoNext
  /\ lastEvent' = IF Live(Head(timers)) THEN "dwell" ELSE "dwellOrphan"
  /\ UNCHANGED <<assessmentState, currentQuestionIndex, currentQuestion, selectedOption,
                 userAnswer, isSubmitting, evaluation, correctAnswers, totalScore,
                 isFinished, isLoading, error, explanationShown, validationError,
                 inFlight, sessions, retries, log>>
  /\ lastUpdate' = Null
  /\ UNCHANGED lastToggle
  /\ UNCHANGED pageVars

\* the response to a request of a component that is no longer mounted
OrphanResponse ==
  /\ \E r \in Requests, failed \in BOOLEAN :
       /\ ~Live(r)
       /\ inFlight' = Answered(r)
       /\ lastUpdate' = IF r.kind = "submit" THEN submitAnswer(r.topic, failed) ELSE Null
  /\ lastEvent' = "orphanResponse"
  /\ UNCHANGED <<assessmentState, compVars, timers, sessions, retries, log, lastToggle>>
  /\ UNCHANGED pageVars

Next ==
  \/ \E type \in {"MCQ", "QNA"} : TakeAssessment(type)
  \/ \E topic \in Topics : ClickTopic(topic)
  \/ ConfirmTopics
  \/ \E num \in CountInputs : CountInput(num)
  \/ StartAssessment
  \/ Cancel
  \/ LeaveSummary
  \/ MCQ_GenerateSucceeds
  \/ MCQ_GenerateFails
  \/ \E key \in OptionKeys : MCQ_SelectOption(key)
  \/ MCQ_ClickSubmit
  \/ MCQ_SubmitReturns
  \/ MCQ_SubmitThrows
  \/ MCQ_ClickNext
  \/ MCQ_ClickRetry
  \/ QnA_GenerateSucceeds
  \/ QnA_GenerateFails
  \/ \E answer \in Answers : QnA_TypeAnswer(answer)
  \/ QnA_ClickSubmit
  \/ QnA_SubmitReturns
  \/ QnA_SubmitThrows
  \/ QnA_ClickNext
  \/ QnA_ClickRetry
  \/ DwellElapsed
  \/ OrphanResponse

Spec == Init /\ [][Next]_vars


\* ----------------------------------------------------------------- claims
Active == assessmentState.step = "active"

\* the question count the caller confirmed
ConfirmedCount == Val(assessmentState.questionCount)

\* the events of a click on the Next button and on the Submit button
NextEvents == {"nextDisabled", "nextRejected", "advanced", "finished"}
SubmitEvents == {"submitDisabled", "submitRejected", "submitSent"}

LiveTimers == {i \in 1 .. Len(timers) : Live(timers[i])}

\* entries of the log that belong to question index i
LoggedFor(i) == {k \in 1 .. Len(log) : log[k].index = i}

\* C1: in an active session confirmed with question count N, the index stays
\* in [0, N), every change of the index is an advance from some i < N-1 to
\* i+1, a successful click on Next below N-1 advances by one, and the session
\* becomes complete only by advancing from index N-1.
C1_ExactlyNQuestions ==
  [][ /\ Active' =>
           /\ ConfirmedCount' \in MinQuestionCount .. MaxQuestionCount
           /\ currentQuestionIndex' \in 0 .. (ConfirmedCount' - 1)
      /\ (Active /\ Active' /\ currentQuestionIndex' # currentQuestionIndex) =>
           /\ currentQuestionIndex < ConfirmedCount - 1
           /\ currentQuestionIndex' = currentQuestionIndex + 1
           /\ lastEvent' = "advanced"
      /\ (Active /\ lastEvent' \in {"advanced", "finished"}) =>
           IF currentQuestionIndex < ConfirmedCount - 1
             THEN currentQuestionIndex' = currentQuestionIndex + 1 /\ ~isFinished'
             ELSE currentQuestionIndex' = currentQuestionIndex /\ isFinished'
      /\ (Active /\ ~isFinished /\ isFinished') =>
           /\ currentQuestionIndex = ConfirmedCount - 1
           /\ lastEvent' = "finished"
    ]_vars

\* a session of two questions has been completed from its last index
C1_Witness ==
  /\ Active /\ isFinished
  /\ ConfirmedCount = 2
  /\ currentQuestionIndex = ConfirmedCount - 1

\* C2: a click on Next while canGoNext is false changes neither the index nor
\* the completion flag and sends no request.
C2_AdvanceRefusedWhileGated ==
  [][ (Active /\ lastEvent' \in NextEvents /\ ~canGoNext) =>
        /\ lastEvent' = "nextDisabled"
        /\ currentQuestionIndex' = currentQuestionIndex
        /\ inFlight' = inFlight
        /\ isFinished' = isFinished /\ ~isFinished'
    ]_vars

\* Next was clicked after a scored result while its dwell timer was pending
C2_Witness ==
  /\ Active /\ lastEvent = "nextDisabled"
  /\ explanationShown /\ ~canGoNext
  /\ LiveTimers # {}

\* C3: canGoNext holds only when the current question has a scored result
\* whose explanation is shown and whose dwell timer has fired; no pending
\* timer of the component comes from an earlier question.
C3_GateOnlyAfterShownAndDwell ==
  Active =>
    /\ canGoNext =>
         /\ explanationShown
         /\ ~IsNull(evaluation)
         /\ LiveTimers = {}
         /\ log # << >>
         /\ log[Len(log)].index = currentQuestionIndex
         /\ log[Len(log)].explained
    /\ \A i \in LiveTimers :
         /\ ~timers[i].stale
         /\ explanationShown /\ ~IsNull(evaluation) /\ ~canGoNext

\* the gate opened for the second question of a session
C3_Witness ==
  /\ Active /\ canGoNext /\ ~isFinished
  /\ currentQuestionIndex = 1

\* C4: once the dwell has elapsed for a scored and explained question, a click
\* on Next succeeds (index + 1, or complete at the last index), and right
\* after it a further click on Next cannot advance.
C4_AdvanceExactlyOnce ==
  [][ (Active /\ lastEvent' \in NextEvents
         /\ canGoNext /\ explanationShown /\ ~IsNull(evaluation)) =>
        /\ \/ /\ lastEvent' = "advanced"
              /\ currentQuestionIndex' = currentQuestionIndex + 1
              /\ ~isFinished'
           \/ /\ lastEvent' = "finished"
              /\ currentQuestionIndex' = currentQuestionIndex
              /\ currentQuestionIndex = ConfirmedCount - 1
              /\ isFinished'
        /\ isFinished' \/ IsNull(evaluation') \/ ~canGoNext'
    ]_vars

\* the caller advanced to the second question, which has no result yet
C4_Witness ==
  /\ Active /\ lastEvent = "advanced"
  /\ currentQuestionIndex = 1
  /\ IsNull(evaluation) /\ ~canGoNext

\* C5: every generate request of the mounted component for index i names
\* selectedTopics[i mod |selectedTopics|].
C5_RoundRobinTopic ==
  \A r \in Requests :
    (r.kind = "generate" /\ Live(r)) => r.topic = TopicAt(topics, r.index)

\* C6: a click on Submit with an answer the validator rejects (QNA) or with
\* no option selected (MCQ) sends no request, changes none of index, score,
\* explanationShown, canGoNext, and leaves the Submit button available.
InvalidSubmission ==
  \/ Mounted("MCQ") /\ IsNull(selectedOption)
  \/ Mounted("QNA") /\ ~Acceptable(userAnswer)

C6_InvalidSubmissionRejectedLocally ==
  [][ (lastEvent' \in SubmitEvents /\ InvalidSubmission /\ ~isSubmitting) =>
        /\ lastEvent' # "submitSent"
        /\ inFlight' = inFlight
        /\ currentQuestionIndex' = currentQuestionIndex
        /\ correctAnswers' = correctAnswers
        /\ totalScore' = totalScore
        /\ explanationShown' = explanationShown
        /\ canGoNext' = canGoNext
        /\ log' = log
        /\ IsNull(evaluation') /\ ~isSubmitting' /\ ~isFinished'
    ]_vars

\* a filler answer long enough for the Submit button was rejected by the handler
C6_Witness ==
  /\ Mounted("QNA") /\ lastEvent = "submitRejected"
  /\ userAnswer = AnswerFiller
  /\ ~IsNull(validationError)
  /\ BagToSet(inFlight) = {}

\* C7: a result carrying evaluation_error records no evaluation, starts no
\* timer and leaves index, score, explanationShown and canGoNext unchanged.
C7_EvaluationErrorChangesNothing ==
  [][ (lastEvent' = "evaluationError") =>
        /\ IsNull(evaluation')
        /\ correctAnswers' = correctAnswers
        /\ totalScore' = totalScore
        /\ currentQuestionIndex' = currentQuestionIndex
        /\ explanationShown' = explanationShown /\ ~explanationShown'
        /\ canGoNext' = canGoNext /\ ~canGoNext'
        /\ timers' = timers
        /\ log' = log
        /\ ~IsNull(error') /\ ~isSubmitting'
    ]_vars

\* the scorer reported its own failure for the second question after the
\* first question had been scored
C7_Witness ==
  /\ Active /\ lastEvent = "evaluationError"
  /\ currentQuestionIndex = 1
  /\ Len(log) = 1
  /\ ~IsNull(error)

\* C8: a verdict with empty feedback and empty explanation records no
\* evaluation and does not increase the score.
C8_UnexplainedResultNoMutation ==
  [][ (lastEvent' = "resultUnexplained") =>
        /\ IsNull(evaluation')
        /\ correctAnswers' = correctAnswers
        /\ totalScore' = totalScore
        /\ ~explanationShown'
        /\ ~IsNull(error')
    ]_vars

\* C9: at most one scored result per question index is accumulated.
C9_OneResultPerIndex ==
  Active => \A i \in 0 .. (ConfirmedCount - 1) : Cardinality(LoggedFor(i)) <= 1

\* the entries of the log whose result let the caller advance, and their worth
RECURSIVE AcceptedWorth(_)
AcceptedWorth(n) ==
  IF n = 0 THEN 0
  ELSE AcceptedWorth(n - 1) + (IF log[n].explained THEN log[n].worth ELSE 0)

AcceptedIndices == {log[k].index : k \in {j \in 1 .. Len(log) : log[j].explained}}

\* C10: the summary of a complete session is exact: correct count (MCQ) or
\* total marks (QNA) equal what the one accepted result per index was worth,
\* and stay within question count, resp. 10 * question count.
C10_SummaryExact ==
  (Active /\ isFinished) =>
    /\ Mounted("MCQ") =>
         /\ correctAnswers = AcceptedWorth(Len(log))
         /\ correctAnswers <= questionCount
    /\ Mounted("QNA") =>
         /\ totalScore = AcceptedWorth(Len(log))
         /\ totalScore <= maxPossibleMarks
    /\ AcceptedIndices = 0 .. (ConfirmedCount - 1)

\* C11: in every sub-state of active (question loading, awaiting an answer,
\* submission in flight, dwell pending, result shown, error shown) a cancel is
\* enabled, and one cancel step takes the session straight to idle: no state
\* in between, and no generate or submit request is issued by the step.
C11_CancelAlwaysAndDirect ==
  /\ [](Active /\ ~isFinished => ENABLED Cancel)
  /\ [][(Active /\ lastEvent' = "cancel") =>
          /\ assessmentState' = IdleState
          /\ BagCardinality(inFlight') = BagCardinality(inFlight)
          /\ \A r \in BagToSet(inFlight') : r.session = 0]_vars

\* a cancel made while a submission was in flight and a dwell timer pending
C11_Witness ==
  /\ lastEvent = "cancel"
  /\ \E r \in Requests : r.kind = "submit"
  /\ timers # << >>

\* C12: a cancel made while the dwell timer is pending takes the session out
\* of active at once, and the pending continuation is discarded: it never runs
\* after the cancellation, and it changes no state of that session or of a
\* session started later.
C12_DwellContinuationDiscarded ==
  [][/\ (lastEvent' = "cancel" => ~Active')
     /\ lastEvent' # "dwellOrphan"
     /\ (lastEvent' \in {"dwell", "dwellOrphan"} /\ ~Live(Head(timers)) =>
           UNCHANGED <<assessmentState, compVars, sessions, log>>)]_vars

\* C13: a cancel made while a question is in flight (shown and unanswered, or
\* its submit sent and not yet answered) causes no mastery mutation for that
\* question: from the cancel on, no step that serves a request the cancelled
\* session left behind updates a TopicRecord, in whichever order the server
\* takes the submit and the cancel.
C13_CancelledQuestionNotRecorded ==
  [][lastEvent' \in {"cancel", "orphanResponse"} => lastUpdate' = Null]_vars

\* an integer of [1, 50]
ValidCount(count) ==
  ~IsNull(count) /\ Val(count) \in MinQuestionCount .. MaxQuestionCount

\* the events of a click on the Start Assessment button
StartEvents == {"startDisabled", "confirm"}

C15_OutOfRangeCountChangesNothing ==
  [][lastEvent' = "countOutOfRange" => assessmentState' = assessmentState]_vars

\* C15, amended: in count, an attempt to set question_count to a value outside
\* [1, 50] leaves step, selected_topics and session_type unchanged and starts
\* nothing, but the stored question_count is replaced by the out-of-range
\* value typed (0 for an empty input).
C15_OutOfRangeCountOnlyStored ==
  [][lastEvent' = "countOutOfRange" =>
       /\ assessmentState.step = "count"
       /\ assessmentState'.step = "count"
       /\ assessmentState'.type = assessmentState.type
       /\ assessmentState'.selectedTopics = assessmentState.selectedTopics
       /\ ~IsNull(assessmentState'.questionCount)
       /\ ~ValidCount(assessmentState'.questionCount)
       /\ UNCHANGED <<compVars, netVars, sessions>>]_vars

\* 51 typed over a count that was stored before
C15_Witness ==
  /\ lastEvent = "countOutOfRange"
  /\ assessmentState.step = "count"
  /\ assessmentState.questionCount = Some(MaxQuestionCount + 1)

\* ---------------------------------------- the handlers, whatever the step
\* ChatPage hands its handlers to AIMemoryPanel as the props onStartAssessment,
\* onToggleTopic, onSetQuestionCount and onConfirmAssessment, and no handler
\* looks at the step.  The actions below are calls of a prop made while the
\* step is not the one its control belongs to.
onStartAssessment(type) ==
  /\ assessmentState.step \in {"scope", "count"}
  /\ sessions < MaxSessions
  /\ handleStartAssessment(type)
  /\ sessions' = sessions + 1
  /\ lastToggle' = Null
  /\ lastUpdate' = Null
  /\ lastEvent' = "startOutOfStep"
  /\ UNCHANGED <<compVars, netVars, retries, log>>
  /\ UNCHANGED pageVars

onToggleTopic(topic) ==
  /\ assessmentState.step # "scope"
  /\ handleToggleTopic(topic)
  /\ lastUpdate' = Null
  /\ lastEvent' = "toggleOutOfStep"
  /\ UNCHANGED <<compVars, netVars, sessions, retries, log, lastToggle>>
  /\ UNCHANGED pageVars

onSetQuestionCount(count) ==
  /\ assessmentState.step = "idle"
  /\ handleSetQuestionCount(count)
  /\ lastUpdate' = Null
  /\ lastEvent' = "countOutOfStep"
  /\ UNCHANGED <<compVars, netVars, sessions, retries, log, lastToggle>>
  /\ UNCHANGED pageVars

onConfirmAssessment ==
  /\ assessmentState.step \in {"idle", "scope"}
  /\ handleConfirmAssessment
  /\ Mount
  /\ lastToggle' = Null
  /\ lastUpdate' = Null
  /\ lastEvent' = "confirmOutOfStep"
  /\ UNCHANGED <<sessions, retries, log>>
  /\ UNCHANGED pageVars

NextHandlers ==
  \/ \E type \in {"MCQ", "QNA"} : TakeAssessment(type)
  \/ \E topic \in Topics : ClickTopic(topic)
  \/ ConfirmTopics
  \/ \E num \in CountInputs : CountInput(num)
  \/ StartAssessment
  \/ Cancel
  \/ \E type \in {"MCQ", "QNA"} : onStartAssessment(type)
  \/ \E topic \in Topics : onToggleTopic(topic)
  \/ \E num \in CountInputs : onSetQuestionCount(num)
  \/ onConfirmAssessment

SpecHandlers == Init /\ [][NextHandlers]_vars

\* the events of a handler called out of its step
OutOfStepEvents ==
  {"startOutOfStep", "toggleOutOfStep", "countOutOfStep", "confirmOutOfStep"}

\* C16: an action that is invalid for the current session state (confirming
\* the count in idle or scope, setting the count in idle, toggling a topic
\* outside scope, starting a session while not idle) is rejected: the whole
\* session state is as it was.
C16_OutOfStepActionRejected ==
  [][lastEvent' \in OutOfStepEvents =>
       UNCHANGED <<assessmentState, compVars, netVars>>]_vars

\* no topic twice
DuplicateFree(list) ==
  \A i, j \in 1 .. Len(list) : list[i] = list[j] => i = j

Members(list) == {list[i] : i \in 1 .. Len(list)}

\* a step that is the second of two clicks in a row on the same topic
SecondToggle == ~IsNull(lastToggle') /\ lastToggle' # lastToggle /\ Val(lastToggle').again

\* C18, as claimed: in scope the membership operation is idempotent: made twice
\* in a row for the same topic it yields the selected_topics that making it
\* once yields.
C18_ToggleIdempotent ==
  [][SecondToggle =>
       assessmentState'.selectedTopics = assessmentState.selectedTopics]_vars

\* C18, amended: in scope the membership operation is a toggle, not idempotent:
\* each one flips the topic's membership and never makes a duplicate, and made
\* twice in a row for the same topic it restores the set of selected topics
\* that held before the first (the very sequence when the topic was not
\* selected; a topic that was selected moves to the end).
C18_ToggleTwiceRestores ==
  [][SecondToggle =>
       LET topic == Val(lastToggle').topic
           first == Val(lastToggle).before
           once == assessmentState.selectedTopics
           twice == assessmentState'.selectedTopics
       IN /\ Includes(once, topic) # Includes(first, topic)
          /\ Includes(twice, topic) = Includes(first, topic)
          /\ Members(twice) = Members(first)
          /\ DuplicateFree(once) /\ DuplicateFree(twice)
          /\ twice # once
          /\ ~Includes(first, topic) => twice = first
          /\ Includes(first, topic) => twice = Append(Without(first, topic), topic)]_vars

\* a selected topic, first of two, clicked twice in a row: it is now the last
C18_Witness ==
  /\ assessmentState.step = "scope"
  /\ ~IsNull(lastToggle)
  /\ Val(lastToggle).again
  /\ lastEvent = "toggleAdd"
  /\ Len(assessmentState.selectedTopics) = 2

\* ------------------------------------------------- the validator by itself
\* longest answer made of the characters below
MaxAnswerLength == 4

\* a lower-case and an upper-case letter, a second letter, a blank, a digit
ValidatorChars == {"a", "A", "s", " ", "1"}

\* the answers the validator is applied to: every string of ValidatorChars up
\* to MaxAnswerLength, and the named answers
ValidatorInputs ==
  UNION {[1 .. n -> ValidatorChars] : n \in 0 .. MaxAnswerLength}
  \cup Answers
  \cup {AnswerNewton, AnswerMostlyDigits, AnswerRepeated, AnswerNoWord}
  \cup {AnswerOneWord, AnswerSixFragments, AnswerSevenFragments}

\* handleSubmit's validation of the answer: the message it sets, null when
\* the answer goes on to the scorer
validationMessage(answer) ==
  IF TooShort(answer) THEN Some(TooShortMessage)
  ELSE IF isGibberishAnswer(answer) THEN Some(GibberishMessage)
  ELSE Null

InitValidator ==
  /\ assessmentState = IdleState
  /\ currentQuestionIndex = 0
  /\ currentQuestion = Null
  /\ selectedOption = Null
  /\ userAnswer \in ValidatorInputs
  /\ isSubmitting = FALSE
  /\ evaluation = Null
  /\ correctAnswers = 0
  /\ totalScore = 0
  /\ isFinished = FALSE
  /\ isLoading = TRUE
  /\ error = Null
  /\ canGoNext = FALSE
  /\ explanationShown = FALSE
  /\ validationError = Null
  /\ inFlight = EmptyBag
  /\ timers = << >>
  /\ sessions = 0
  /\ retries = 0
  /\ log = << >>
  /\ lastToggle = Null
  /\ lastUpdate = Null
  /\ lastEvent = "init"
  /\ PageIdle

\* the validator applied to the answer
Validate ==
  /\ lastEvent = "init"
  /\ validationError' = validationMessage(userAnswer)
  /\ lastEvent' = IF isGibberishAnswer(userAnswer) THEN "gibberish" ELSE "meaningful"
  /\ UNCHANGED <<assessmentState, currentQuestionIndex, currentQuestion, selectedOption,
                 userAnswer, isSubmitting, evaluation, correctAnswers, totalScore,
                 isFinished, isLoading, error, canGoNext, explanationShown,
                 inFlight, timers, sessions, retries, log, lastToggle, lastUpdate>>
  /\ UNCHANGED pageVars

NextValidator == Validate

SpecValidator == InitValidator /\ [][NextValidator]_vars

Validated == lastEvent \in {"gibberish", "meaningful"}
Rejected == lastEvent = "gibberish" /\ ~IsNull(validationError)
Accepted == lastEvent = "meaningful" /\ IsNull(validationError)

\* every word the validator extracts from the answer is a denylisted filler
FillerTokens ==
  { <<"a","s","d","f">>, <<"q","w","e","r","t","y">>, <<"z","x","c","v">>,
    <<"a","a","a">>, <<"b","b","b">>, <<"x","x","x">>, <<"y","y","y">>, <<"z","z","z">> }

OnlyFillerWords(answer) ==
  \A w \in Words(trim(answer)) : toLowerCase(w) \in FillerTokens

\* C19: the validator rejects the empty answer, every whitespace-only answer,
\* "qwerty", "asdf asdf asdf" and every answer whose extracted words are all
\* denylisted filler tokens, and it accepts the sentence "Newton's second law
\* states that force equals mass times acceleration".
C19_ValidatorExamples ==
  Validated =>
    /\ (\A i \in 1 .. Len(userAnswer) : userAnswer[i] \in Whitespace) => Rejected
    /\ userAnswer = W_qwerty => Rejected
    /\ userAnswer = AnswerFiller => Rejected
    /\ OnlyFillerWords(userAnswer) => Rejected
    /\ userAnswer = AnswerNewton => Accepted

\* the filler answer "asdf asdf asdf", validated
C19_Witness ==
  /\ Validated
  /\ userAnswer = AnswerFiller
  /\ Rejected

\* the five conditions, in the order listed
TooShortCondition(answer) == Len(trim(answer)) < 3

MostlyNonAlphabetic(answer) == 2 * AlphaChars(trim(answer)) < Len(trim(answer))

GibberishPattern(answer) ==
  LET lower == toLowerCase(trim(answer))
  IN KeyboardRun(lower) \/ ShortFragments(lower) \/ NoLetters(lower) \/ RepeatedPattern(lower)

NoRealWords(answer) == Words(trim(answer)) = {}

Conditions(answer) ==
  << TooShortCondition(answer), MostlyNonAlphabetic(answer), GibberishPattern(answer),
     NoRealWords(answer), OnlyFillerWords(answer) >>

\* the first condition that holds, 0 when none does
FirstCondition(answer) ==
  IF \E k \in 1 .. 5 : Conditions(answer)[k]
    THEN CHOOSE k \in 1 .. 5 :
           Conditions(answer)[k] /\ \A j \in 1 .. (k - 1) : ~Conditions(answer)[j]
    ELSE 0

\* the reason of each condition, and the reason the caller is told
Reasons ==
  << "too short / empty", "non-alphabetic / mashed", "gibberish pattern",
     "no real words", "known gibberish words" >>

ReportedReason ==
  IF validationError = Some(TooShortMessage) THEN "too short / empty"
  ELSE IF validationError = Some(GibberishMessage) THEN "gibberish pattern"
  ELSE "none"

\* C20, as claimed: the validator rejects an answer iff at least one of the
\* five conditions holds, and it reports the reason of the first condition
\* that holds, the same for the same answer.
C20_ReasonOfFirstCondition ==
  Validated =>
    /\ Accepted <=> FirstCondition(userAnswer) = 0
    /\ FirstCondition(userAnswer) # 0 =>
         ReportedReason = Reasons[FirstCondition(userAnswer)]

\* C20, amended: the validator is a pure function that rejects an answer iff
\* at least one of the five conditions holds; it reports one of two reasons
\* only: "empty or very short" when the first condition holds, and "random
\* characters or gibberish" when the first condition does not hold and one of
\* the other four does, whichever of them it is.
C20_TwoReasons ==
  Validated =>
    /\ Accepted <=> FirstCondition(userAnswer) = 0
    /\ Rejected <=> FirstCondition(userAnswer) # 0
    /\ FirstCondition(userAnswer) = 1 <=> validationError = Some(TooShortMessage)
    /\ FirstCondition(userAnswer) \in 2 .. 5 <=> validationError = Some(GibberishMessage)
    /\ validationError = validationMessage(userAnswer)

\* "asd1111", whose first condition is the second one, told to be gibberish
C20_Witness ==
  /\ Validated
  /\ userAnswer = AnswerMostlyDigits
  /\ FirstCondition(userAnswer) = 2
  /\ validationError = Some(GibberishMessage)

\* the generate requests of the mounted component that are awaiting a response
LiveGenerates(bag) ==
  {r \in BagToSet(bag) : r.kind = "generate" /\ r.session = sessions}

\* the error view of a failed generation is shown
GenerationFailed ==
  /\ Active
  /\ ~isLoading
  /\ error = Some("Failed to load question. Please try again.")

\* C21: a failed question generation mutates nothing in the session
\* (current_index, the score, explanation_shown and can_advance keep their
\* values) and issues no request; while its error is shown a generate request
\* is issued by the caller's Retry only.
C21_FailedGenerationInert ==
  [][/\ (lastEvent' = "generateFailed" =>
           /\ UNCHANGED <<assessmentState, currentQuestionIndex, currentQuestion,
                          correctAnswers, totalScore, explanationShown, canGoNext,
                          evaluation, log>>
           /\ BagCardinality(inFlight') = BagCardinality(inFlight) - 1
           /\ LiveGenerates(inFlight') = {}
           /\ GenerationFailed')
     /\ (GenerationFailed /\ Active' /\ LiveGenerates(inFlight') # {} =>
           lastEvent' = "retry")]_vars

\* the generation of the second question failed, after a scored first one
C21_Witness ==
  /\ lastEvent = "generateFailed"
  /\ currentQuestionIndex > 0
  /\ Len(log) > 0

\* C22: the submissions of one user are serialized: a submit request is issued
\* only when no earlier submit request of the user is still outstanding, a
\* request that a cancelled session left behind included.
C22_SubmitsSerialized ==
  [][lastEvent' = "submitSent" =>
       \A r \in Requests : r.kind # "submit"]_vars

\* the events that end a session: a cancel, and leaving the summary
EndEvents == {"cancel", "leaveSummary"}

\* C23: a cancelled session is a clean terminal state: after a cancel from
\* scope, count or active, and after leaving the summary of a complete
\* session, the session state is the initial idle state (no type, no selected
\* topic, no question count), no error is set, and a new session can be
\* started from it.
C23_CancelledIsCleanIdle ==
  lastEvent \in EndEvents =>
    /\ assessmentState = IdleState
    /\ assessmentState = [step |-> "idle", type |-> "null",
                          selectedTopics |-> << >>, questionCount |-> Null]
    /\ IsNull(error) /\ IsNull(validationError)
    /\ ~isFinished /\ currentQuestionIndex = 0 /\ correctAnswers = 0 /\ totalScore = 0
    /\ sessions < MaxSessions =>
         ENABLED TakeAssessment("MCQ") /\ ENABLED TakeAssessment("QNA")

\* the summary of a complete session was left, and another session may start
C23_Witness ==
  /\ lastEvent = "leaveSummary"
  /\ assessmentState = IdleState
  /\ sessions < MaxSessions


\* the events that start a question: the mount of the component, an advance
\* and a retry of the same index
QuestionStartEvents == {"confirm", "advanced", "retry"}

\* the evaluation held for the question on screen is a verdict, received for
\* the current index
EvaluationReceived ==
  /\ ~IsNull(evaluation)
  /\ ~Val(evaluation).evaluation_error
  /\ Len(log) > 0
  /\ log[Len(log)].index = currentQuestionIndex

\* C25 as stated: explanation_shown is true only if a valid evaluation has
\* been received for the current question and its explanation text is
\* non-empty.
C25_ExplanationTextNonEmpty ==
  explanationShown =>
    EvaluationReceived /\ Val(evaluation).correct_explanation # ""

\* C25: explanation_shown is false when each question starts (mount, advance,
\* retry of the same index) and is true only if a valid evaluation, without
\* evaluation_error, has been received for the current question and its
\* feedback text or its explanation text is non-empty.
C25_ExplanationShownOnlyWithText ==
  [][ /\ (lastEvent' \in QuestionStartEvents /\ Active') => ~explanationShown'
      /\ explanationShown' =>
           /\ EvaluationReceived'
           /\ (Val(evaluation').feedback # "" \/ Val(evaluation').correct_explanation # "")
    ]_vars

C25_Witness ==
  /\ explanationShown
  /\ retries > 0
  /\ Val(evaluation).feedback # ""
  /\ Val(evaluation).correct_explanation = ""


\* ------------------------------------------------- sessions never cancelled
\* The calls fail, or return a result without a verdict or a text, only while
\* the caller has a retry left: a call eventually returns a result with
\* non-empty feedback when the caller retries.
CallMayFail == retries < MaxRetries

MCQ_SubmitSent == MCQ_ClickSubmit /\ lastEvent' = "submitSent"

\* the answers of the caller that pass the checks of handleSubmit
AcceptableAnswers == {answer \in Answers : Acceptable(answer)}

\* QnA_ClickSubmit where handleSubmit sends the answer to the scorer
QnA_SubmitSent ==
  /\ Mounted("QNA")
  /\ ~isFinished /\ IsNull(evaluation)
  /\ ~QnA_SubmitDisabled
  /\ ~IsNull(currentQuestion)
  /\ userAnswer \in AcceptableAnswers
  /\ validationError' = Null
  /\ isSubmitting' = TRUE
  /\ error' = Null
  /\ inFlight' = Sent(SubmitRequest(TopicAt(topics, currentQuestionIndex), currentQuestionIndex))
  /\ lastEvent' = "submitSent"
  /\ lastUpdate' = Null
  /\ UNCHANGED <<assessmentState, currentQuestionIndex, currentQuestion, selectedOption,
                 userAnswer, evaluation, correctAnswers, totalScore, isFinished,
                 isLoading, canGoNext, explanationShown,
                 timers, sessions, retries, log, lastToggle>>
  /\ UNCHANGED pageVars

MCQ_Advance == MCQ_ClickNext /\ lastEvent' \in {"advanced", "finished"}
QnA_Advance == QnA_ClickNext /\ lastEvent' \in {"advanced", "finished"}

\* the steps of sessions whose caller never cancels
NextLive ==
  \/ \E type \in {"MCQ", "QNA"} : TakeAssessment(type)
  \/ \E topic \in Topics : ClickTopic(topic)
  \/ ConfirmTopics
  \/ \E num \in CountInputs : CountInput(num)
  \/ StartAssessment
  \/ LeaveSummary
  \/ MCQ_GenerateSucceeds
  \/ CallMayFail /\ MCQ_GenerateFails
  \/ \E key \in OptionKeys : MCQ_SelectOption(key)
  \/ MCQ_ClickSubmit
  \/ MCQ_SubmitReturns /\ (CallMayFail \/ lastEvent' = "resultExplained")
  \/ CallMayFail /\ MCQ_SubmitThrows
  \/ MCQ_ClickNext
  \/ MCQ_ClickRetry
  \/ QnA_GenerateSucceeds
  \/ CallMayFail /\ QnA_GenerateFails
  \/ \E answer \in Answers : QnA_TypeAnswer(answer)
  \/ QnA_ClickSubmit
  \/ QnA_SubmitReturns /\ (CallMayFail \/ lastEvent' = "resultExplained")
  \/ CallMayFail /\ QnA_SubmitThrows
  \/ QnA_ClickNext
  \/ QnA_ClickRetry
  \/ DwellElapsed

\* a verdict that comes with a text to show
MCQ_ResultExplained == MCQ_SubmitReturns /\ lastEvent' = "resultExplained"
QnA_ResultExplained == QnA_SubmitReturns /\ lastEvent' = "resultExplained"

\* the calls return and the timer fires; a submission that is repeated is
\* eventually answered with a verdict and a text; the caller keeps answering,
\* retrying and advancing (of two actions under one condition, one belongs to
\* MCQAssessment and one to QnAAssessment, and only one component is mounted)
Fairness ==
  /\ WF_vars(MCQ_GenerateSucceeds \/ QnA_GenerateSucceeds)
  /\ SF_vars(MCQ_ResultExplained \/ QnA_ResultExplained)
  /\ WF_vars(DwellElapsed)
  /\ WF_vars((\E key \in OptionKeys : MCQ_SelectOption(key)) \/ QnA_TypeAnswer(AnswerSentence))
  /\ SF_vars(MCQ_SubmitSent \/ QnA_SubmitSent)
  /\ WF_vars(MCQ_Advance \/ QnA_Advance)
  /\ WF_vars(MCQ_ClickRetry \/ QnA_ClickRetry)

SpecLive == Init /\ [][NextLive]_vars /\ Fairness

\* C26: no session gets stuck: when the timer fires, the calls return and
\* answer a retry with a result that has a text, a session whose caller keeps
\* answering, retrying and advancing and never cancels reaches complete.
C26_NoStuckSession == (Active /\ ~isFinished) ~> isFinished

C26_Witness == Active /\ isFinished /\ retries > 0 /\ currentQuestionIndex > 0


\* C27: the topic sent with an answer submission is the topic for which the
\* question on screen was generated, however that question was loaded.
C27_SubmitTopicIsQuestionTopic ==
  \A r \in Requests :
    (r.kind = "submit" /\ Live(r)) =>
      /\ ~IsNull(currentQuestion)
      /\ r.topic = Val(currentQuestion).topic


\* the fragments of an answer: its maximal pieces without whitespace, in order
RECURSIVE Fragments(_)
Fragments(s) ==
  IF s = << >> THEN << >>
  ELSE IF Head(s) \in Whitespace THEN Fragments(Tail(s))
  ELSE LET stops == {i \in 1 .. Len(s) : s[i] \in Whitespace}
           n == IF stops = {} THEN Len(s) + 1
                ELSE CHOOSE i \in stops : \A j \in stops : i <= j
       IN <<SubSeq(s, 1, n - 1)>> \o Fragments(SubSeq(s, n, Len(s)))

LettersOnly(s) == \A i \in 1 .. Len(s) : s[i] \in LowerLetters \cup UpperLetters

\* a single word of three letters or more
SingleWord(answer) ==
  /\ Len(Fragments(answer)) = 1
  /\ LettersOnly(Fragments(answer)[1])
  /\ Len(Fragments(answer)[1]) >= 3

\* one to six fragments of one to three letters each
FewShortFragments(answer) ==
  /\ Len(Fragments(answer)) \in 1 .. 6
  /\ \A i \in 1 .. Len(Fragments(answer)) :
       /\ LettersOnly(Fragments(answer)[i])
       /\ Len(Fragments(answer)[i]) \in 1 .. 3

\* C28: the validator rejects every answer whose trimmed text is a single word
\* of three or more letters a-z/A-Z, and every answer made of one to six
\* whitespace-separated fragments of one to three letters each.
C28_WordsAndShortFragmentsRejected ==
  Validated =>
    /\ SingleWord(userAnswer) => Rejected
    /\ FewShortFragments(userAnswer) => Rejected

\* "the cat sat on the mat", six fragments, rejected
C28_Witness ==
  /\ Validated
  /\ userAnswer = AnswerSixFragments
  /\ Len(Fragments(userAnswer)) = 6
  /\ FewShortFragments(userAnswer)
  /\ Rejected


ToggleEvents == {"toggleAdd", "toggleRemove"}

\* the topics of a list other than topic, in the order of the list
Others(list, topic) == SelectSeq(list, LAMBDA t : t # topic)

\* C29: selected_topics is empty when the session starts and changes in scope
\* by toggles only; a toggle of a topic flips the membership of that topic and
\* of no other, keeps the order of the others and puts an added topic last,
\* leaves no duplicate, and leaves session_type, question_count and the step
\* unchanged. Hence selected_topics holds exactly the topics toggled an odd
\* number of times since the session started, in the order of their most
\* recent addition.
C29_TogglesByParityInOrder ==
  [][ LET old == assessmentState.selectedTopics
          new == assessmentState'.selectedTopics
      IN /\ lastEvent' = "start" => new = << >>
         /\ (assessmentState.step = "scope" /\ assessmentState'.step = "scope" /\ new # old)
              => lastEvent' \in ToggleEvents
         /\ lastEvent' \in ToggleEvents =>
              /\ DuplicateFree(new)
              /\ Val(lastToggle').topic \in Members(new)
                   <=> Val(lastToggle').topic \notin Members(old)
              /\ Others(new, Val(lastToggle').topic) = Others(old, Val(lastToggle').topic)
              /\ Val(lastToggle').topic \in Members(new) => new[Len(new)] = Val(lastToggle').topic
              /\ assessmentState'.type = assessmentState.type
              /\ assessmentState'.questionCount = assessmentState.questionCount
              /\ assessmentState'.step = assessmentState.step
    ]_vars

\* a topic added behind the other one: the order is that of the additions,
\* not that of the topic list
C29_Witness ==
  /\ lastEvent = "toggleAdd"
  /\ Val(lastToggle).before # << >>
  /\ Len(assessmentState.selectedTopics) = 2
  /\ assessmentState.selectedTopics[1] > assessmentState.selectedTopics[2]


\* ------------------------------------------------ the topic list and its labels
\* most questions_attempted of a TopicRecord
MaxAttempted == 2

\* mastery_score in hundredths: Math.round(mastery_score * 100)
FullScore == 100

\* 0.40, in hundredths
StrongThreshold == 40

\* the server's classification of a TopicRecord
classify(mastery_score, questions_attempted) ==
  IF questions_attempted = 0 THEN "unassessed"
  ELSE IF mastery_score >= StrongThreshold THEN "strong"
  ELSE "weak"

\* the TopicRecords the server exposes: the default record of a topic that was
\* taught and never assessed, and the records of assessed topics
TopicRecords ==
  {[mastery_score |-> 0, questions_attempted |-> 0, classification |-> classify(0, 0)]}
  \cup
  {[mastery_score |-> s, questions_attempted |-> n, classification |-> classify(s, n)] :
     s \in 0 .. FullScore, n \in 1 .. MaxAttempted}

\* getMasteryColor(topic.mastery_score); questions_attempted is not looked at
getMasteryColor(score) ==
  IF score >= StrongThreshold THEN "text-emerald-400" ELSE "text-red-400"

getClassificationBadge(classification) ==
  CASE classification = "strong" -> "Strong"
    [] classification = "weak" -> "Weak"
    [] OTHER -> "Unassessed"

\* the chip of a scorer response: {evaluation.classification}, shown uppercase
classificationChip(classification) ==
  CASE classification = "strong" -> "Strong"
    [] classification = "weak" -> "Weak"
    [] OTHER -> "Unassessed"

\* evaluation.mastery_score >= 0.40 ? "bg-emerald-500" : "bg-destructive"
masteryBar(score) ==
  IF score >= StrongThreshold THEN "bg-emerald-500" ELSE "bg-destructive"

\* chatApi.getTopics resolved with a topic: setTopicsData(data)
InitPanel ==
  /\ SessionInit
  /\ messages = << >>
  /\ chatIsLoading = FALSE
  /\ chatError = Null
  /\ chatCalls = {}
  /\ sends = 0
  /\ topicData \in {Some(t) : t \in TopicRecords}
  /\ topicRow = Null

\* the row of the topic in "All Topics": its badge and its mastery text
RenderTopicRow ==
  /\ lastEvent = "init"
  /\ topicRow' = Some([label |-> getClassificationBadge(Val(topicData).classification),
                       colour |-> getMasteryColor(Val(topicData).mastery_score)])
  /\ lastEvent' = "topicRow"
  /\ UNCHANGED <<chatVars, compVars, netVars, sessions, retries, log, lastToggle,
                 lastUpdate, messages, chatIsLoading, chatError, chatCalls, sends,
                 topicData>>

\* the result card of an answered question: the response carries the record
\* after its update, so questions_attempted is not 0
RenderResult ==
  /\ lastEvent = "init"
  /\ Val(topicData).questions_attempted > 0
  /\ topicRow' = Some([label |-> classificationChip(Val(topicData).classification),
                       colour |-> masteryBar(Val(topicData).mastery_score)])
  /\ lastEvent' = "resultCard"
  /\ UNCHANGED <<chatVars, compVars, netVars, sessions, retries, log, lastToggle,
                 lastUpdate, messages, chatIsLoading, chatError, chatCalls, sends,
                 topicData>>

NextPanel ==
  \/ RenderTopicRow
  \/ RenderResult

SpecPanel == InitPanel /\ [][NextPanel]_vars

\* what a label and what a colour tell about the topic
StrongColours == {"text-emerald-400", "bg-emerald-500"}
WeakColours == {"text-red-400", "bg-destructive"}

ToldByLabel(row) ==
  CASE row.label = "Strong" -> "strong"
    [] row.label = "Weak" -> "weak"
    [] OTHER -> "unassessed"

ToldByColour(row) ==
  IF row.colour \in StrongColours THEN "strong"
  ELSE IF row.colour \in WeakColours THEN "weak"
  ELSE "unassessed"

\* C24: every TopicRecord exposed is unassessed iff questions_attempted = 0,
\* otherwise strong iff mastery_score >= 0.40 and weak iff below; the badge
\* and the mastery colour of a topic apply this same rule, so that they never
\* tell two different classifications of one topic.
C24_ConsumersAgree ==
  ~IsNull(topicRow) =>
    /\ Val(topicData).classification = "unassessed" <=> Val(topicData).questions_attempted = 0
    /\ Val(topicData).questions_attempted > 0 =>
         (Val(topicData).classification = "strong"
            <=> Val(topicData).mastery_score >= StrongThreshold)
    /\ ToldByLabel(Val(topicRow)) = Val(topicData).classification
    /\ ToldByColour(Val(topicRow)) = Val(topicData).classification


\* ------------------------------------------------------------------ useChat
\* most messages the user sends
MaxSends == 2

\* what the user types: a text, and blanks only
T_hi == <<"h","i">>
Inputs == {T_hi, SP \o SP}

\* the label of a DecisionCard ("Ask a Question"), and the reply of the server
T_ask == <<"A","s","k">>
T_reply == <<"o","k">>
T_old == <<"o","l","d">>

\* what chatApi.getHistory resolves with: what the server stored before the
\* page was loaded, nothing or one exchange
Histories ==
  { << >>,
    << [text |-> T_old, sender |-> "user"], [text |-> T_reply, sender |-> "ai"] >> }

\* history.map((msg, index) => ({id: `hist_${index}`, text, sender, timestamp}))
formattedHistory(history) ==
  [i \in 1 .. Len(history) |->
     [id |-> <<"hist", i - 1>>, text |-> history[i].text, sender |-> history[i].sender]]

HistoryCall == [kind |-> "history", n |-> 0, text |-> << >>]
SendCall(n, text) == [kind |-> "send", n |-> n, text |-> text]
ClearCall == [kind |-> "clear", n |-> 0, text |-> << >>]

\* the hook after its effect has run: fetchHistory awaits chatApi.getHistory
InitChat ==
  /\ SessionInit
  /\ messages = << >>
  /\ chatIsLoading = TRUE
  /\ chatError = Null
  /\ chatCalls = {HistoryCall}
  /\ sends = 0
  /\ topicData = Null
  /\ topicRow = Null

sessionVars == <<chatVars, compVars, netVars, sessions, retries, log, lastToggle, lastUpdate>>

\* chatApi.getHistory resolved: setMessages(formattedHistory), then finally
HistoryReturns ==
  /\ HistoryCall \in chatCalls
  /\ \E history \in Histories : messages' = formattedHistory(history)
  /\ chatIsLoading' = FALSE
  /\ chatCalls' = chatCalls \ {HistoryCall}
  /\ lastEvent' = "history"
  /\ UNCHANGED <<sessionVars, chatError, sends, topicData, topicRow>>

\* chatApi.getHistory rejected: setMessages([]), then finally
HistoryFails ==
  /\ HistoryCall \in chatCalls
  /\ messages' = << >>
  /\ chatIsLoading' = FALSE
  /\ chatCalls' = chatCalls \ {HistoryCall}
  /\ lastEvent' = "historyFailed"
  /\ UNCHANGED <<sessionVars, chatError, sends, topicData, topicRow>>

\* sendMessage of the hook, up to the await
sendMessage(text) ==
  IF trim(text) = << >>
    THEN /\ lastEvent' = "sendBlank"
         /\ UNCHANGED <<messages, chatIsLoading, chatError, chatCalls, sends>>
    ELSE /\ messages' = Append(messages, [id |-> <<"sent", sends + 1>>, text |-> text,
                                           sender |-> "user"])
         /\ chatIsLoading' = TRUE
         /\ chatError' = Null
         /\ chatCalls' = chatCalls \cup {SendCall(sends + 1, text)}
         /\ sends' = sends + 1
         /\ lastEvent' = "sent"

\* a DecisionCard, shown while the list is empty: onSendMessage(suggestion.label)
ClickDecisionCard ==
  /\ Len(messages) = 0
  /\ sends < MaxSends
  /\ sendMessage(T_ask)
  /\ UNCHANGED <<sessionVars, topicData, topicRow>>

\* the input form: if (input.trim() && !isLoading) onSendMessage(input)
SubmitInput(text) ==
  /\ sends < MaxSends
  /\ IF trim(text) # << >> /\ ~chatIsLoading
       THEN sendMessage(text)
       ELSE /\ lastEvent' = "inputRefused"
            /\ UNCHANGED <<messages, chatIsLoading, chatError, chatCalls, sends>>
  /\ UNCHANGED <<sessionVars, topicData, topicRow>>

\* chatApi.sendMessage resolved: the reply is appended, then finally
SendReturns ==
  /\ \E c \in chatCalls :
       /\ c.kind = "send"
       /\ messages' = Append(messages, [id |-> <<"ai", c.n>>, text |-> T_reply,
                                         sender |-> "ai"])
       /\ chatCalls' = chatCalls \ {c}
  /\ chatIsLoading' = FALSE
  /\ lastEvent' = "reply"
  /\ UNCHANGED <<sessionVars, chatError, sends, topicData, topicRow>>

\* chatApi.sendMessage rejected: setError, then finally
SendFails ==
  /\ \E c \in chatCalls :
       /\ c.kind = "send"
       /\ chatCalls' = chatCalls \ {c}
  /\ chatError' = Some("An error occurred")
  /\ chatIsLoading' = FALSE
  /\ lastEvent' = "sendFailed"
  /\ UNCHANGED <<sessionVars, messages, sends, topicData, topicRow>>

\* "New Session": handleNewSession awaits clearMessages
NewSession ==
  /\ chatCalls' = chatCalls \cup {ClearCall}
  /\ lastEvent' = "clearRequested"
  /\ UNCHANGED <<sessionVars, messages, chatIsLoading, chatError, sends, topicData, topicRow>>

\* chatApi.clearHistory resolved or rejected: setMessages([]) either way
ClearReturns ==
  /\ ClearCall \in chatCalls
  /\ chatCalls' = chatCalls \ {ClearCall}
  /\ messages' = << >>
  /\ lastEvent' = "cleared"
  /\ UNCHANGED <<sessionVars, chatIsLoading, chatError, sends, topicData, topicRow>>

NextChat ==
  \/ HistoryReturns
  \/ HistoryFails
  \/ ClickDecisionCard
  \/ \E text \in Inputs : SubmitInput(text)
  \/ SendReturns
  \/ SendFails
  \/ NewSession
  \/ ClearReturns

SpecChat == InitChat /\ [][NextChat]_vars

\* the messages of the list that sendMessage appended, as <<text, sender>>
Shown(list) == {<<list[i].text, list[i].sender>> : i \in 1 .. Len(list)}
SentShown(list) == {<<list[i].text, list[i].sender>> : i \in {k \in 1 .. Len(list) : list[k].id[1] = "sent"}}

\* C30: a user message appended by sendMessage stays in the list until
\* clearMessages, also when a history fetch completes after it; its reply is
\* appended behind it when the call succeeds; text of blanks only appends
\* nothing and issues no request.
C30_SentMessageStays ==
  [][ /\ lastEvent' # "cleared" => SentShown(messages) \subseteq Shown(messages')
      /\ lastEvent' = "reply" =>
           /\ messages'[Len(messages')].sender = "ai"
           /\ \E i \in 1 .. Len(messages') - 1 :
                /\ messages'[i].sender = "user"
                /\ messages'[i].id[2] = messages'[Len(messages')].id[2]
      /\ lastEvent' \in {"sendBlank", "inputRefused"} =>
           UNCHANGED <<messages, chatCalls>>
    ]_vars

====
